---- MODULE Spec2Model ----
(***************************************************************************)
(* Course-detail resolution of the prerequisite backend (be/app/main.py).  *)
(* The loaded catalog set is fixed at start-up; every request walks the    *)
(* prerequisite graph of one catalog (recursive ancestor walk, stack-based *)
(* descendant walk), resolves unresolved ids in the other catalogs and     *)
(* assembles a CourseDetail.                                               *)
(*                                                                         *)
(* A course id is a sequence of one-character strings, so that             *)
(* normalisation (strip whitespace, lower-case) is computed, not assumed.  *)
(***************************************************************************)
EXTENDS Naturals, Sequences, FiniteSets, Bags

VARIABLES all_catalogs, pc, req, dfs_stack, visited, missing, missing_seen,
          anc_entered, stack, desc_visited, desc_expanded, response

\* The search handler: its position, request, normalised query, loop
\* position and result.
VARIABLES search_pc, search_req, query, cursor, matches

\* The structuring pipeline (yoink/structure_courses.py): the raw dump and
\* the structured file of one department, and the locals of a run.
VARIABLES raw, file, run_pc, existing, course_records, course_order, batch,
          idx, attempt, results, resume

detail_vars == <<pc, req, dfs_stack, visited, missing, missing_seen,
                 anc_entered, stack, desc_visited, desc_expanded, response>>

search_vars == <<search_pc, search_req, query, cursor, matches>>

run_vars == <<raw, file, run_pc, existing, course_records, course_order, batch,
              idx, attempt, results, resume>>

vars == <<all_catalogs, detail_vars, search_vars, run_vars>>

\* Largest number of courses in the catalog whose graph is explored.
MaxCourses == 3

----------------------------------------------------------------------------
\* Generic helpers

Range(s) == {s[i] : i \in 1..Len(s)}

SetMax(S) == CHOOSE x \in S : \A y \in S : y <= x

SetMin(S) == CHOOSE x \in S : \A y \in S : x <= y

\* All orders in which a set can be iterated.
Perms(S) == {p \in [1..Cardinality(S) -> S] : \A x \in S : \E i \in DOMAIN p : p[i] = x}

\* s is t with some elements left out, order kept.
IsSubseq(s, t) ==
    \E f \in [1..Len(s) -> 1..Len(t)] :
        /\ \A i \in 1..Len(s) : s[i] = t[f[i]]
        /\ \A i, j \in 1..Len(s) : i < j => f[i] < f[j]

SeqsUpTo(S, n) == UNION {[1..k -> S] : k \in 1..n}

----------------------------------------------------------------------------
\* Course ids and their normalisation

IsSpace(c) == c = " "

Lower(c) ==
    CASE c = "A" -> "a"
      [] c = "B" -> "b"
      [] c = "C" -> "c"
      [] c = "M" -> "m"
      [] c = "X" -> "x"
      [] c = "Z" -> "z"
      [] OTHER -> c

\* "".join(course_id.split()).lower()
NormalizeCourseId(course_id) ==
    LET kept == SelectSeq(course_id, LAMBDA c : ~IsSpace(c))
    IN  [i \in 1..Len(kept) |-> Lower(kept[i])]

\* Flattened prerequisite references, empty ids skipped.
RECURSIVE PrereqIds(_)
PrereqIds(prereq_groups) ==
    IF prereq_groups = <<>> THEN <<>>
    ELSE SelectSeq(Head(prereq_groups), LAMBDA course_id : course_id # <<>>)
            \o PrereqIds(Tail(prereq_groups))

----------------------------------------------------------------------------
\* Input data

Course(id, name, groups) == [id |-> id, name |-> name, prereqGroups |-> groups]

Catalog(slug, department, courses) ==
    [slug |-> slug, department |-> department, courses |-> courses]

\* Courses the explored catalog is built from: a chain, a two-cycle, a
\* three-cycle, a self-reference, two spellings of one id, references that
\* resolve nowhere in the catalog, an empty group and an empty id.
CsePool ==
    { Course(<<"A">>, "a1", <<>>),
      Course(<<"A">>, "a2", << <<<<"B">>>> >>),
      Course(<<"a", " ">>, "a3", << <<<<"A">>>> >>),
      Course(<<"B">>, "b1", << <<<<"a", " ">>>> >>),
      Course(<<"B">>, "b2", << <<<<"C">>>>, <<<<"X">>>>, <<<<"a", " ">>>> >>),
      Course(<<"C">>, "c1", << <<<<"A">>, <<"M">>, <<"B">>>>, <<<<" ", "m">>>> >>),
      Course(<<"C">>, "c2", << <<>>, <<<<>>, <<"b">>>> >>) }

MathCatalog ==
    Catalog("math", "Mathematics",
            << Course(<<"M">>, "m1", << <<<<"X">>>> >>),
               Course(<<"m", " ">>, "m2", <<>>) >>)

PhysCatalog ==
    Catalog("phys", "Physics",
            << Course(<<" ", "m">>, "p1", << <<<<"a">>>> >>),
               Course(<<"x">>, "p2", <<>>) >>)

\* The other catalogs, in every insertion order.
OtherLayouts ==
    { <<>>, <<MathCatalog>>, <<PhysCatalog>>,
      <<MathCatalog, PhysCatalog>>, <<PhysCatalog, MathCatalog>> }

CatalogSets ==
    { <<Catalog("cse", "Computer Science", cs)>> \o others :
        cs \in SeqsUpTo(CsePool, MaxCourses), others \in OtherLayouts }

RequestSlugs == {"cse", "math", "phys", "chem"}

RequestIds == { <<"a">>, <<"B", " ">>, <<"c">>, <<"M">>, <<"Z">> }

NoRequest == [slug |-> "", course_id |-> <<>>]

NoResponse == [status |-> 0]

----------------------------------------------------------------------------
\* Lookups over the loaded catalogs

Slugs == {all_catalogs[i].slug : i \in 1..Len(all_catalogs)}

\* catalogs.get(slug) for a slug that is loaded
CatalogOf(slug) ==
    all_catalogs[CHOOSE i \in 1..Len(all_catalogs) : all_catalogs[i].slug = slug]

\* Position of the course the index keeps under a key.
IndexPosition(courses, key) ==
    SetMax({j \in 1..Len(courses) : NormalizeCourseId(courses[j].id) = key})

\* An index keyed by the display id.
IndexByDisplayId(catalog) ==
    [key \in {c.id : c \in Range(catalog.courses)} |->
        catalog.courses[SetMax({j \in 1..Len(catalog.courses) : catalog.courses[j].id = key})]]

\* index = {normalize(course.id): course for course in catalog.courses}
Index(catalog) ==
    [key \in {NormalizeCourseId(c.id) : c \in Range(catalog.courses)} |->
        catalog.courses[IndexPosition(catalog.courses, key)]]

\* A children map keyed by the spelling of the reference.
ChildrenBySpelling(catalog, key) ==
    {NormalizeCourseId(c.id) : c \in
        {d \in Range(catalog.courses) : key \in Range(PrereqIds(d.prereqGroups))}}

\* children[key]: the courses that list key as a prerequisite
Children(catalog, key) ==
    {NormalizeCourseId(c.id) : c \in
        {d \in Range(catalog.courses) :
            \E p \in Range(PrereqIds(d.prereqGroups)) : NormalizeCourseId(p) = key}}

Current == CatalogOf(req.slug)

Normalized == NormalizeCourseId(req.course_id)

\* No search is in progress.
SearchIdle ==
    /\ search_pc = "idle"
    /\ search_req = [slug |-> "", q |-> <<>>]
    /\ query = <<>>
    /\ cursor = 0
    /\ matches = <<>>

\* No structuring run is in progress.
RunIdle ==
    /\ run_pc = "idle"
    /\ existing = <<>>
    /\ course_records = <<>>
    /\ course_order = <<>>
    /\ batch = <<>>
    /\ idx = 0
    /\ attempt = 0
    /\ results = "none"
    /\ resume = "none"

----------------------------------------------------------------------------
Init ==
    /\ all_catalogs \in CatalogSets
    /\ pc = "idle"
    /\ req = NoRequest
    /\ dfs_stack = <<>>
    /\ visited = {}
    /\ missing = <<>>
    /\ missing_seen = {}
    /\ anc_entered = EmptyBag
    /\ stack = <<>>
    /\ desc_visited = {}
    /\ desc_expanded = EmptyBag
    /\ response = NoResponse
    /\ SearchIdle
    /\ RunIdle
    /\ raw = <<>>
    /\ file = <<>>

Fresh ==
    /\ visited' = {}
    /\ missing' = <<>>
    /\ missing_seen' = {}
    /\ stack' = <<>>
    /\ desc_visited' = {}
    /\ desc_expanded' = EmptyBag

\* get_course_detail: the slug is not loaded
CatalogNotFound(slug, course_id) ==
    /\ pc = "idle"
    /\ slug \notin Slugs
    /\ req' = [slug |-> slug, course_id |-> course_id]
    /\ response' = [status |-> 404, detail |-> "catalog"]
    /\ pc' = "done"
    /\ dfs_stack' = <<>>
    /\ anc_entered' = EmptyBag
    /\ Fresh
    /\ UNCHANGED all_catalogs
    /\ UNCHANGED <<search_vars, run_vars>>

\* _build_course_detail: the id is not in the catalog's index
CourseNotFound(slug, course_id) ==
    /\ pc = "idle"
    /\ slug \in Slugs
    /\ NormalizeCourseId(course_id) \notin DOMAIN Index(CatalogOf(slug))
    /\ req' = [slug |-> slug, course_id |-> course_id]
    /\ response' = [status |-> 404, detail |-> "course"]
    /\ pc' = "done"
    /\ dfs_stack' = <<>>
    /\ anc_entered' = EmptyBag
    /\ Fresh
    /\ UNCHANGED all_catalogs
    /\ UNCHANGED <<search_vars, run_vars>>

\* _build_course_detail up to the call dfs(start_id)
BuildCourseDetail(slug, course_id) ==
    /\ pc = "idle"
    /\ slug \in Slugs
    /\ NormalizeCourseId(course_id) \in DOMAIN Index(CatalogOf(slug))
    /\ req' = [slug |-> slug, course_id |-> course_id]
    /\ response' = NoResponse
    /\ pc' = "ancestors"
    /\ dfs_stack' = <<[current_id |-> NormalizeCourseId(course_id), i |-> 1]>>
    /\ anc_entered' = SetToBag({NormalizeCourseId(course_id)})
    /\ Fresh
    /\ UNCHANGED all_catalogs
    /\ UNCHANGED <<search_vars, run_vars>>

----------------------------------------------------------------------------
\* _collect_ancestor_ids: one step of dfs per action

Frame == dfs_stack[Len(dfs_stack)]

\* A walk that follows the first prerequisite group only.
FrameIdsFirstGroup ==
    IF dfs_stack[Len(dfs_stack)].current_id \in DOMAIN Index(Current)
    THEN LET groups == Index(Current)[dfs_stack[Len(dfs_stack)].current_id].prereqGroups
         IN  IF groups = <<>> THEN <<>> ELSE PrereqIds(<<Head(groups)>>)
    ELSE <<>>

FrameIds ==
    IF Frame.current_id \in DOMAIN Index(Current)
    THEN PrereqIds(Index(Current)[Frame.current_id].prereqGroups)
    ELSE <<>>

Advance == [dfs_stack EXCEPT ![Len(dfs_stack)].i = @ + 1]

\* Whether the walk has already recorded this unresolved id.
MissingSeen(prereq_id, seen) == prereq_id \in seen

\* What the walk remembers of a recorded unresolved id.
MissingKey(prereq_id) == prereq_id

DfsMissing ==
    /\ pc = "ancestors"
    /\ dfs_stack # <<>>
    /\ Frame.i <= Len(FrameIds)
    /\ LET prereq_id == FrameIds[Frame.i]
       IN  /\ NormalizeCourseId(prereq_id) \notin DOMAIN Index(Current)
           /\ IF MissingSeen(prereq_id, missing_seen)
              THEN UNCHANGED <<missing, missing_seen>>
              ELSE /\ missing_seen' = missing_seen \cup {MissingKey(prereq_id)}
                   /\ missing' = Append(missing, prereq_id)
    /\ dfs_stack' = Advance
    /\ UNCHANGED <<all_catalogs, pc, req, visited, anc_entered, stack,
                   desc_visited, desc_expanded, response>>
    /\ UNCHANGED <<search_vars, run_vars>>

DfsSkipVisited ==
    /\ pc = "ancestors"
    /\ dfs_stack # <<>>
    /\ Frame.i <= Len(FrameIds)
    /\ LET normalized == NormalizeCourseId(FrameIds[Frame.i])
       IN  /\ normalized \in DOMAIN Index(Current)
           /\ normalized \in visited
    /\ dfs_stack' = Advance
    /\ UNCHANGED <<all_catalogs, pc, req, visited, missing, missing_seen,
                   anc_entered, stack, desc_visited, desc_expanded, response>>
    /\ UNCHANGED <<search_vars, run_vars>>

DfsRecurse ==
    /\ pc = "ancestors"
    /\ dfs_stack # <<>>
    /\ Frame.i <= Len(FrameIds)
    /\ LET normalized == NormalizeCourseId(FrameIds[Frame.i])
       IN  /\ normalized \in DOMAIN Index(Current)
           /\ normalized \notin visited
           /\ visited' = visited \cup {normalized}
           /\ dfs_stack' = Append(Advance, [current_id |-> normalized, i |-> 1])
           /\ anc_entered' = anc_entered (+) SetToBag({normalized})
    /\ UNCHANGED <<all_catalogs, pc, req, missing, missing_seen, stack,
                   desc_visited, desc_expanded, response>>
    /\ UNCHANGED <<search_vars, run_vars>>

DfsReturn ==
    /\ pc = "ancestors"
    /\ dfs_stack # <<>>
    /\ Frame.i > Len(FrameIds)
    /\ dfs_stack' = SubSeq(dfs_stack, 1, Len(dfs_stack) - 1)
    /\ UNCHANGED <<all_catalogs, pc, req, visited, missing, missing_seen,
                   anc_entered, stack, desc_visited, desc_expanded, response>>
    /\ UNCHANGED <<search_vars, run_vars>>

----------------------------------------------------------------------------
\* _collect_descendant_ids: one iteration of the loop per action.  A set is
\* iterated in an order the program does not fix.

CollectDescendantsStart ==
    /\ pc = "ancestors"
    /\ dfs_stack = <<>>
    /\ stack' \in Perms(Children(Current, Normalized))
    /\ desc_expanded' = SetToBag({Normalized})
    /\ pc' = "descendants"
    /\ UNCHANGED <<all_catalogs, req, dfs_stack, visited, missing, missing_seen,
                   anc_entered, desc_visited, response>>
    /\ UNCHANGED <<search_vars, run_vars>>

\* A pop that also discards the entry below the top.
PopTwo(s) == SubSeq(s, 1, Len(s) - 2)

Pop(s) == SubSeq(s, 1, Len(s) - 1)

DescPopVisited ==
    /\ pc = "descendants"
    /\ stack # <<>>
    /\ stack[Len(stack)] \in desc_visited
    /\ stack' = Pop(stack)
    /\ UNCHANGED <<all_catalogs, pc, req, dfs_stack, visited, missing,
                   missing_seen, anc_entered, desc_visited, desc_expanded, response>>
    /\ UNCHANGED <<search_vars, run_vars>>

\* A walk that stops at the direct dependents.
PushedNothing(catalog, current) == {}

\* The ids pushed when current is taken off the stack for the first time.
Pushed(catalog, current) == Children(catalog, current)

DescPopNew ==
    /\ pc = "descendants"
    /\ stack # <<>>
    /\ LET current == stack[Len(stack)]
       IN  /\ current \notin desc_visited
           /\ desc_visited' = desc_visited \cup {current}
           /\ \E order \in Perms(Pushed(Current, current)) :
                  stack' = Pop(stack) \o order
           /\ desc_expanded' = desc_expanded (+) SetToBag({current})
    /\ UNCHANGED <<all_catalogs, pc, req, dfs_stack, visited, missing,
                   missing_seen, anc_entered, response>>
    /\ UNCHANGED <<search_vars, run_vars>>

----------------------------------------------------------------------------
\* Assembly of the CourseDetail

\* A scan that compares the display id with the normalized set.
CoursesByDisplayId(catalog, id_set) ==
    SelectSeq(catalog.courses, LAMBDA course : course.id \in id_set)

\* _courses_in_catalog_order
CoursesInCatalogOrder(catalog, id_set) ==
    SelectSeq(catalog.courses, LAMBDA course : NormalizeCourseId(course.id) \in id_set)

\* Whether _filter_course_prereqs keeps an id of a group.
Allowed(cid, allowed_ids) == NormalizeCourseId(cid) \in allowed_ids

\* A filter that keeps a group it has emptied.
KeepEveryGroup(filtered) == TRUE

\* Whether _filter_course_prereqs keeps a filtered group.
KeepGroup(filtered) == filtered # <<>>

RECURSIVE FilterGroups(_, _)
FilterGroups(groups, allowed_ids) ==
    IF groups = <<>> THEN <<>>
    ELSE LET filtered == SelectSeq(Head(groups), LAMBDA cid : Allowed(cid, allowed_ids))
         IN  (IF KeepGroup(filtered) THEN <<filtered>> ELSE <<>>)
                \o FilterGroups(Tail(groups), allowed_ids)

\* _filter_course_prereqs
FilterCoursePrereqs(course, allowed_ids) ==
    [course EXCEPT !.prereqGroups = FilterGroups(course.prereqGroups, allowed_ids)]

\* A related set that leaves the target out.
RelatedIdsNoTarget(normalized, ancestor_ids, descendant_ids) ==
    ancestor_ids \cup descendant_ids

\* related_ids = {normalized, *ancestor_ids, *descendant_ids}
RelatedIds(normalized, ancestor_ids, descendant_ids) ==
    {normalized} \cup ancestor_ids \cup descendant_ids

RECURSIVE FilterAll(_, _)
FilterAll(courses, allowed_ids) ==
    IF courses = <<>> THEN <<>>
    ELSE <<FilterCoursePrereqs(Head(courses), allowed_ids)>>
            \o FilterAll(Tail(courses), allowed_ids)

\* The catalogs the external lookup searches for a key, by position.
MatchingCatalogs(catalogs, current_slug, normalized) ==
    {i \in 1..Len(catalogs) :
        /\ catalogs[i].slug # current_slug
        /\ \E c \in Range(catalogs[i].courses) : NormalizeCourseId(c.id) = normalized}

\* A lookup in which the last matching catalog wins.
LastMatchingCatalog(catalogs, current_slug, normalized) ==
    SetMax(MatchingCatalogs(catalogs, current_slug, normalized))

\* The catalog the inner loops stop in.
ChosenCatalog(catalogs, current_slug, normalized) ==
    SetMin(MatchingCatalogs(catalogs, current_slug, normalized))

\* The course the innermost loop stops at.
ChosenCourse(courses, normalized) ==
    courses[SetMin({j \in 1..Len(courses) : NormalizeCourseId(courses[j].id) = normalized})]

\* A lookup that deduplicates by spelling.
SeenSpelling(prereq_id) == prereq_id

\* What _resolve_external_prereqs remembers of a looked-up id.
SeenKey(prereq_id) == NormalizeCourseId(prereq_id)

\* _resolve_external_prereqs, the loop over missing_ids
RECURSIVE ResolveFrom(_, _, _, _)
ResolveFrom(missing_ids, current_slug, catalogs, seen) ==
    IF missing_ids = <<>> THEN [external |-> <<>>, still_missing |-> <<>>]
    ELSE LET prereq_id == Head(missing_ids)
             normalized == NormalizeCourseId(prereq_id)
         IN  IF SeenKey(prereq_id) \in seen
             THEN ResolveFrom(Tail(missing_ids), current_slug, catalogs, seen)
             ELSE LET rest == ResolveFrom(Tail(missing_ids), current_slug, catalogs,
                                          seen \cup {SeenKey(prereq_id)})
                      found == MatchingCatalogs(catalogs, current_slug, normalized) # {}
                  IN  IF found
                      THEN LET catalog == catalogs[ChosenCatalog(catalogs, current_slug, normalized)]
                           IN  [external |->
                                    <<[slug |-> catalog.slug,
                                       department |-> catalog.department,
                                       course |-> ChosenCourse(catalog.courses, normalized)]>>
                                    \o rest.external,
                                still_missing |-> rest.still_missing]
                      ELSE [external |-> rest.external,
                            still_missing |-> <<prereq_id>> \o rest.still_missing]

ResolveExternalPrereqs(missing_ids, current_slug, catalogs) ==
    ResolveFrom(missing_ids, current_slug, catalogs, {})

\* _build_course_detail from the end of the descendant walk to the return
Assemble ==
    /\ pc = "descendants"
    /\ stack = <<>>
    /\ LET catalog == Current
           course == Index(catalog)[Normalized]
           resolved == ResolveExternalPrereqs(missing, catalog.slug, all_catalogs)
           related_ids == RelatedIds(Normalized, visited, desc_visited)
           related_courses ==
               FilterAll(CoursesInCatalogOrder(catalog, related_ids), related_ids)
       IN  response' =
               [status |-> 200,
                department |-> catalog.department,
                slug |-> catalog.slug,
                course |-> course,
                prerequisites |-> CoursesInCatalogOrder(catalog, visited),
                postrequisites |-> CoursesInCatalogOrder(catalog, desc_visited),
                missing_prereq_ids |-> resolved.still_missing,
                external_prereqs |-> resolved.external,
                related_courses |->
                    IF related_courses # <<>> THEN related_courses ELSE <<course>>]
    /\ pc' = "done"
    /\ UNCHANGED <<all_catalogs, req, dfs_stack, visited, missing, missing_seen,
                   anc_entered, stack, desc_visited, desc_expanded>>
    /\ UNCHANGED <<search_vars, run_vars>>

\* get_course_detail hands the result to the transport layer; the request's
\* locals are gone.
ReturnResponse ==
    /\ pc = "done"
    /\ pc' = "idle"
    /\ req' = NoRequest
    /\ response' = NoResponse
    /\ dfs_stack' = <<>>
    /\ anc_entered' = EmptyBag
    /\ Fresh
    /\ UNCHANGED all_catalogs
    /\ UNCHANGED <<search_vars, run_vars>>

----------------------------------------------------------------------------
Next ==
    \/ \E slug \in RequestSlugs, course_id \in RequestIds : CatalogNotFound(slug, course_id)
    \/ \E slug \in RequestSlugs, course_id \in RequestIds : CourseNotFound(slug, course_id)
    \/ \E slug \in RequestSlugs, course_id \in RequestIds : BuildCourseDetail(slug, course_id)
    \/ DfsMissing
    \/ DfsSkipVisited
    \/ DfsRecurse
    \/ DfsReturn
    \/ CollectDescendantsStart
    \/ DescPopVisited
    \/ DescPopNew
    \/ Assemble
    \/ ReturnResponse

Spec == Init /\ [][Next]_vars

----------------------------------------------------------------------------
\* GET /courses/{slug}/search

\* Largest catalog that is searched.
MaxSearchCourses == 27

\* Most entries a search returns.
SearchLimit == 25

\* str.lower()
LowerAll(text) == [i \in 1..Len(text) |-> Lower(text[i])]

RECURSIVE StripLeft(_)
StripLeft(text) ==
    IF text # <<>> /\ IsSpace(Head(text)) THEN StripLeft(Tail(text)) ELSE text

RECURSIVE StripRight(_)
StripRight(text) ==
    IF text # <<>> /\ IsSpace(text[Len(text)])
    THEN StripRight(SubSeq(text, 1, Len(text) - 1))
    ELSE text

\* str.strip()
Strip(text) == StripRight(StripLeft(text))

\* needle in hay
Contains(needle, hay) ==
    \E i \in 0..(Len(hay) - Len(needle)) : SubSeq(hay, i + 1, i + Len(needle)) = needle

\* The test of the search loop.
CourseMatches(q, course) ==
    \/ q = <<>>
    \/ Contains(q, LowerAll(course.id))
    \/ Contains(q, LowerAll(course.name))

\* A loop that stops one entry late.
LimitPassed(found) == Len(found) > SearchLimit

\* len(matches) >= 25
LimitReached(found) == Len(found) >= SearchLimit

\* Courses with names spelled out, for substring search.
SearchPool ==
    { Course(<<"A", "B">>, <<"x">>, <<>>),
      Course(<<"C">>, <<"b", "A">>, <<>>),
      Course(<<"C", " ", "X">>, <<"m">>, <<>>) }

\* Positions of a long catalog that hold the second course of a pair.
Holes == { {}, {2}, {1, 26} }

\* Catalogs of every length made of one course, with another in the holes.
SearchCatalogs ==
    { [i \in 1..n |-> IF i \in holes THEN other ELSE main] :
        n \in 0..MaxSearchCourses, main \in SearchPool, other \in SearchPool,
        holes \in Holes }

SearchSlugs == {"cse", "chem"}

Queries ==
    { <<>>, <<" ">>, <<"a">>, <<"A", " ">>, <<"b">>, <<" ", "x">>, <<"c", " ", "X">>, <<"z">> }

InitSearch ==
    /\ all_catalogs \in {<<Catalog("cse", "Computer Science", cs)>> : cs \in SearchCatalogs}
    /\ pc = "idle"
    /\ req = NoRequest
    /\ dfs_stack = <<>>
    /\ visited = {}
    /\ missing = <<>>
    /\ missing_seen = {}
    /\ anc_entered = EmptyBag
    /\ stack = <<>>
    /\ desc_visited = {}
    /\ desc_expanded = EmptyBag
    /\ response = NoResponse
    /\ SearchIdle
    /\ RunIdle
    /\ raw = <<>>
    /\ file = <<>>

\* search_courses: the slug is not loaded
SearchCatalogNotFound(slug, q) ==
    /\ search_pc = "idle"
    /\ slug \notin Slugs
    /\ search_req' = [slug |-> slug, q |-> q]
    /\ search_pc' = "not_found"
    /\ UNCHANGED <<query, cursor, matches>>
    /\ UNCHANGED <<all_catalogs, detail_vars, run_vars>>

\* search_courses up to the loop
SearchCourses(slug, q) ==
    /\ search_pc = "idle"
    /\ slug \in Slugs
    /\ search_req' = [slug |-> slug, q |-> q]
    /\ query' = LowerAll(Strip(q))
    /\ matches' = <<>>
    /\ cursor' = 1
    /\ search_pc' = "scan"
    /\ UNCHANGED <<all_catalogs, detail_vars, run_vars>>

\* One iteration of the loop over catalog.courses
ScanCourse ==
    /\ search_pc = "scan"
    /\ cursor <= Len(CatalogOf(search_req.slug).courses)
    /\ LET course == CatalogOf(search_req.slug).courses[cursor]
           found == IF CourseMatches(query, course)
                    THEN Append(matches, [id |-> course.id, name |-> course.name])
                    ELSE matches
       IN  /\ matches' = found
           /\ IF LimitReached(found)
              THEN search_pc' = "done" /\ UNCHANGED cursor
              ELSE cursor' = cursor + 1 /\ UNCHANGED search_pc
    /\ UNCHANGED <<search_req, query>>
    /\ UNCHANGED <<all_catalogs, detail_vars, run_vars>>

\* The loop runs out of courses.
ScanEnd ==
    /\ search_pc = "scan"
    /\ cursor > Len(CatalogOf(search_req.slug).courses)
    /\ search_pc' = "done"
    /\ UNCHANGED <<search_req, query, cursor, matches>>
    /\ UNCHANGED <<all_catalogs, detail_vars, run_vars>>

\* The handler returns; its locals are gone.
SearchReturn ==
    /\ search_pc \in {"done", "not_found"}
    /\ search_pc' = "idle"
    /\ search_req' = [slug |-> "", q |-> <<>>]
    /\ query' = <<>>
    /\ cursor' = 0
    /\ matches' = <<>>
    /\ UNCHANGED <<all_catalogs, detail_vars, run_vars>>

NextSearch ==
    \/ \E slug \in SearchSlugs, q \in Queries : SearchCatalogNotFound(slug, q)
    \/ \E slug \in SearchSlugs, q \in Queries : SearchCourses(slug, q)
    \/ ScanCourse
    \/ ScanEnd
    \/ SearchReturn

SpecSearch == InitSearch /\ [][NextSearch]_vars

----------------------------------------------------------------------------
\* yoink/structure_courses.py: process_department_file on one department.
\* A course of the raw dump is its id, a number; 0 is a blob without an id.

\* Most courses in a raw dump.
MaxRawCourses == 32

BATCH_SIZE == 30

\* Attempts parse_prereqs_batch makes.
MaxAttempts == 3

\* rawRequirements of the course is not empty.
HasRequirements(cid) == cid # 1

\* What a successful parse yields for a course.
LlmGroups == << <<"x">> >>

Interval(lo, hi) == [i \in 1..(hi + 1 - lo) |-> lo + i - 1]

\* Dumps the fetcher can leave: nothing, the last course only, every course,
\* and a short dump that starts with a blob without an id.
RawInputs ==
    { <<>>,
      Interval(MaxRawCourses, MaxRawCourses),
      Interval(1, MaxRawCourses),
      <<0>> \o Interval(1, 3) }

\* f with key bound to value
Put(f, key, value) ==
    [k \in DOMAIN f \cup {key} |-> IF k = key THEN value ELSE f[k]]

\* load_existing_courses: id -> stored prereqGroups, the last record wins
LoadExisting(stored) ==
    [cid \in {stored[i].id : i \in 1..Len(stored)} |->
        stored[SetMax({i \in 1..Len(stored) : stored[i].id = cid})].prereqGroups]

\* write_department_output: the records of the ids in order that have one
RECURSIVE WriteOutput(_, _)
WriteOutput(records, order) ==
    IF order = <<>> THEN <<>>
    ELSE (IF Head(order) \in DOMAIN records
          THEN <<[id |-> Head(order), prereqGroups |-> records[Head(order)]]>>
          ELSE <<>>)
         \o WriteOutput(records, Tail(order))

\* Outcomes of parse_prereqs_batch: the response covers every course of the
\* batch, or every course but the first, or all attempts failed.
Outcomes == {"ok", "partial", "failed"}

\* results.get(cid, []) for a course of the batch
ResultsGet(outcome, queued, cid) ==
    IF outcome = "ok" \/ (outcome = "partial" /\ cid # Head(queued))
    THEN LlmGroups
    ELSE <<>>

\* Merge of the batch results into the records: the first n queued courses.
RECURSIVE Merge(_, _, _, _)
Merge(records, queued, outcome, n) ==
    IF n = 0 THEN records
    ELSE Put(Merge(records, queued, outcome, n - 1),
             queued[n], ResultsGet(outcome, queued, queued[n]))

\* A test that sends a course with an empty stored value to the LLM again.
StructuredNonEmpty(cid, stored) == cid \in DOMAIN stored /\ stored[cid] # <<>>

\* cid in existing
AlreadyStructured(cid, stored) == cid \in DOMAIN stored

InitStructure ==
    /\ all_catalogs = <<>>
    /\ pc = "idle"
    /\ req = NoRequest
    /\ dfs_stack = <<>>
    /\ visited = {}
    /\ missing = <<>>
    /\ missing_seen = {}
    /\ anc_entered = EmptyBag
    /\ stack = <<>>
    /\ desc_visited = {}
    /\ desc_expanded = EmptyBag
    /\ response = NoResponse
    /\ SearchIdle
    /\ RunIdle
    /\ raw \in RawInputs
    /\ file = <<>>

\* fetch_courses.py rewrites the raw dump of the department.
Fetch(dump) ==
    /\ run_pc = "idle"
    /\ raw' = dump
    /\ UNCHANGED <<file, run_pc, existing, course_records, course_order, batch,
                   idx, attempt, results, resume>>
    /\ UNCHANGED <<all_catalogs, detail_vars, search_vars>>

\* process_department_file up to the loop
StartRun ==
    /\ run_pc = "idle"
    /\ existing' = LoadExisting(file)
    /\ course_records' = <<>>
    /\ course_order' = <<>>
    /\ batch' = <<>>
    /\ idx' = 1
    /\ run_pc' = "loop"
    /\ UNCHANGED <<raw, file, attempt, results, resume>>
    /\ UNCHANGED <<all_catalogs, detail_vars, search_vars>>

\* The blob has no id: the course is skipped.
LoopSkip ==
    /\ run_pc = "loop"
    /\ idx <= Len(raw)
    /\ raw[idx] = 0
    /\ idx' = idx + 1
    /\ UNCHANGED <<raw, file, run_pc, existing, course_records, course_order,
                   batch, attempt, results, resume>>
    /\ UNCHANGED <<all_catalogs, detail_vars, search_vars>>

\* The course is in the structured file: its stored prereqGroups are reused.
LoopReuse ==
    /\ run_pc = "loop"
    /\ idx <= Len(raw)
    /\ raw[idx] # 0
    /\ AlreadyStructured(raw[idx], existing)
    /\ course_order' = Append(course_order, raw[idx])
    /\ course_records' = Put(course_records, raw[idx], existing[raw[idx]])
    /\ idx' = idx + 1
    /\ UNCHANGED <<raw, file, run_pc, existing, batch, attempt, results, resume>>
    /\ UNCHANGED <<all_catalogs, detail_vars, search_vars>>

\* The course has no requirements text: prereqGroups stays empty.
LoopNoRequirements ==
    /\ run_pc = "loop"
    /\ idx <= Len(raw)
    /\ raw[idx] # 0
    /\ ~AlreadyStructured(raw[idx], existing)
    /\ ~HasRequirements(raw[idx])
    /\ course_order' = Append(course_order, raw[idx])
    /\ course_records' = Put(course_records, raw[idx], <<>>)
    /\ idx' = idx + 1
    /\ UNCHANGED <<raw, file, run_pc, existing, batch, attempt, results, resume>>
    /\ UNCHANGED <<all_catalogs, detail_vars, search_vars>>

\* The course is queued; a full batch goes to process_batch_and_flush.
LoopQueue ==
    /\ run_pc = "loop"
    /\ idx <= Len(raw)
    /\ raw[idx] # 0
    /\ ~AlreadyStructured(raw[idx], existing)
    /\ HasRequirements(raw[idx])
    /\ course_order' = Append(course_order, raw[idx])
    /\ batch' = Append(batch, raw[idx])
    /\ idx' = idx + 1
    /\ IF Len(batch) + 1 = BATCH_SIZE
       THEN run_pc' = "parse" /\ attempt' = 0 /\ results' = "none" /\ resume' = "loop"
       ELSE UNCHANGED <<run_pc, attempt, results, resume>>
    /\ UNCHANGED <<raw, file, existing, course_records>>
    /\ UNCHANGED <<all_catalogs, detail_vars, search_vars>>

\* The loop is over with courses still queued.
LoopEndBatch ==
    /\ run_pc = "loop"
    /\ idx > Len(raw)
    /\ batch # <<>>
    /\ run_pc' = "parse"
    /\ attempt' = 0
    /\ results' = "none"
    /\ resume' = "final"
    /\ UNCHANGED <<raw, file, existing, course_records, course_order, batch, idx>>
    /\ UNCHANGED <<all_catalogs, detail_vars, search_vars>>

\* parse_prereqs_batch: an attempt returns parsed results.
AttemptSucceeds ==
    /\ run_pc = "parse"
    /\ attempt < MaxAttempts
    /\ results' \in Outcomes \ {"failed"}
    /\ run_pc' = "merge"
    /\ UNCHANGED <<raw, file, existing, course_records, course_order, batch, idx,
                   attempt, resume>>
    /\ UNCHANGED <<all_catalogs, detail_vars, search_vars>>

\* parse_prereqs_batch: an attempt raises; after the last one {} is returned.
AttemptFails ==
    /\ run_pc = "parse"
    /\ attempt < MaxAttempts
    /\ attempt' = attempt + 1
    /\ IF attempt + 1 = MaxAttempts
       THEN results' = "failed" /\ run_pc' = "merge"
       ELSE UNCHANGED <<results, run_pc>>
    /\ UNCHANGED <<raw, file, existing, course_records, course_order, batch, idx,
                   resume>>
    /\ UNCHANGED <<all_catalogs, detail_vars, search_vars>>

\* process_batch_and_flush after the parse: merge, write, empty the batch
MergeAndFlush ==
    /\ run_pc = "merge"
    /\ LET merged == Merge(course_records, batch, results, Len(batch))
       IN  /\ course_records' = merged
           /\ file' = WriteOutput(merged, course_order)
    /\ batch' = <<>>
    /\ run_pc' = resume
    /\ UNCHANGED <<raw, existing, course_order, idx, attempt, results, resume>>
    /\ UNCHANGED <<all_catalogs, detail_vars, search_vars>>

\* The final write; the run is over.
FinalWrite ==
    /\ \/ run_pc = "final"
       \/ run_pc = "loop" /\ idx > Len(raw) /\ batch = <<>>
    /\ file' = WriteOutput(course_records, course_order)
    /\ run_pc' = "idle"
    /\ existing' = <<>>
    /\ course_records' = <<>>
    /\ course_order' = <<>>
    /\ batch' = <<>>
    /\ idx' = 0
    /\ attempt' = 0
    /\ results' = "none"
    /\ resume' = "none"
    /\ UNCHANGED raw
    /\ UNCHANGED <<all_catalogs, detail_vars, search_vars>>

\* The run is stopped; what it had in memory is gone.
Interrupt ==
    /\ run_pc # "idle"
    /\ run_pc' = "idle"
    /\ existing' = <<>>
    /\ course_records' = <<>>
    /\ course_order' = <<>>
    /\ batch' = <<>>
    /\ idx' = 0
    /\ attempt' = 0
    /\ results' = "none"
    /\ resume' = "none"
    /\ UNCHANGED <<raw, file>>
    /\ UNCHANGED <<all_catalogs, detail_vars, search_vars>>

NextStructure ==
    \/ \E dump \in RawInputs : Fetch(dump)
    \/ StartRun
    \/ LoopSkip
    \/ LoopReuse
    \/ LoopNoRequirements
    \/ LoopQueue
    \/ LoopEndBatch
    \/ AttemptSucceeds
    \/ AttemptFails
    \/ MergeAndFlush
    \/ FinalWrite
    \/ Interrupt

SpecStructure == InitStructure /\ [][NextStructure]_vars

----------------------------------------------------------------------------
\* Properties

\* A CourseDetail has been built for the request.
Ok200 == pc = "done" /\ response.status = 200

Ids(courses) == [i \in 1..Len(courses) |-> NormalizeCourseId(courses[i].id)]

\* Catalog positions whose course has its normalized id in id_set.
Positions(catalog, id_set) ==
    {j \in 1..Len(catalog.courses) : NormalizeCourseId(catalog.courses[j].id) \in id_set}

\* The n-th smallest member of a set of positions.
NthPosition(P, n) == CHOOSE j \in P : Cardinality({k \in P : k <= j}) = n

\* list is exactly the catalog's courses at the positions P, in catalog order,
\* when only the fields in view are compared.
ListsPositions(list, catalog, P, view(_)) ==
    /\ Len(list) = Cardinality(P)
    /\ \A n \in 1..Len(list) : view(list[n]) = view(catalog.courses[NthPosition(P, n)])

Whole(course) == course

IdAndName(course) == [id |-> course.id, name |-> course.name]

NoKeyTwice(courses) ==
    \A i, j \in 1..Len(courses) : i < j => Ids(courses)[i] # Ids(courses)[j]

\* C1: the ancestor set of a built detail never contains the target's
\* normalized id, so the target is not in its own prerequisites list.
C1_TargetNotAncestor ==
    Ok200 => /\ Normalized \notin visited
             /\ Normalized \notin Range(Ids(response.prerequisites))

\* C2: the descendant set of a built detail never contains the target's
\* normalized id, so the target is not in its own postrequisites list.
C2_TargetNotDescendant ==
    Ok200 => /\ Normalized \notin desc_visited
             /\ Normalized \notin Range(Ids(response.postrequisites))

\* C3: in each traversal every course is entered (its prerequisites or its
\* children expanded) at most once.
C3_EnteredAtMostOnce ==
    /\ \A k \in BagToSet(anc_entered) : CopiesIn(k, anc_entered) <= 1
    /\ \A k \in BagToSet(desc_expanded) : CopiesIn(k, desc_expanded) <= 1

\* C4: related_courses is never empty, contains the target course, and lists
\* exactly the courses whose normalized id is in {target} + ancestors +
\* descendants, in catalog order.
C4_RelatedCourses ==
    Ok200 =>
        LET rel == response.related_courses
            related_ids == {Normalized} \cup visited \cup desc_visited
        IN  /\ rel # <<>>
            /\ \E i \in 1..Len(rel) : IdAndName(rel[i]) = IdAndName(response.course)
            /\ Range(Ids(rel)) = related_ids
            /\ ListsPositions(rel, Current, Positions(Current, related_ids), IdAndName)

C4_Witness ==
    /\ Ok200
    /\ visited # {}
    /\ desc_visited # {}
    /\ Normalized \notin visited \cup desc_visited
    /\ Len(response.related_courses) >= 3

\* The ids of a group that normalize into id_set, by position in the group.
KeptPositions(group, id_set) ==
    {k \in 1..Len(group) : NormalizeCourseId(group[k]) \in id_set}

\* filtered is original cut down to id_set: the kept groups are the groups
\* with at least one id in id_set, in their order, each holding its ids in
\* id_set in their order.
IsRestriction(filtered, original, id_set) ==
    LET kept == {h \in 1..Len(original) : KeptPositions(original[h], id_set) # {}}
    IN  /\ Len(filtered) = Cardinality(kept)
        /\ \A g \in 1..Len(filtered) :
              LET group == original[NthPosition(kept, g)]
                  ks == KeptPositions(group, id_set)
              IN  /\ Len(filtered[g]) = Cardinality(ks)
                  /\ \A n \in 1..Len(filtered[g]) :
                        filtered[g][n] = group[NthPosition(ks, n)]

\* C5: in every related course, every id of every filtered group normalizes
\* into the related id set, no group is empty, and each kept group is the
\* original group cut down to the related ids, group order and within-group
\* order kept.
C5_FilteredGroups ==
    Ok200 =>
        LET rel == response.related_courses
            related_ids == {Normalized} \cup visited \cup desc_visited
            P == Positions(Current, related_ids)
        IN  \A i \in 1..Len(rel) :
                /\ \A g \in 1..Len(rel[i].prereqGroups) :
                      /\ rel[i].prereqGroups[g] # <<>>
                      /\ \A cid \in Range(rel[i].prereqGroups[g]) :
                            NormalizeCourseId(cid) \in related_ids
                /\ IsRestriction(rel[i].prereqGroups,
                                 Current.courses[NthPosition(P, i)].prereqGroups,
                                 related_ids)

C5_Witness ==
    /\ Ok200
    /\ \E i \in 1..Len(response.related_courses) :
          LET fg == response.related_courses[i].prereqGroups
              og == Current.courses[NthPosition(
                        Positions(Current, {Normalized} \cup visited \cup desc_visited),
                        i)].prereqGroups
          IN  /\ fg # <<>>
              /\ Len(fg) < Len(og)
              /\ \E g \in 1..Len(fg) : Len(fg[g]) >= 2 /\ fg[g] \notin Range(og)

\* Whether a catalog other than the current one has a course under key.
Elsewhere(key) ==
    \E i \in 1..Len(all_catalogs) :
        /\ all_catalogs[i].slug # req.slug
        /\ key \in Range(Ids(all_catalogs[i].courses))

\* How many entries of a list of ids normalize to key.
CountKey(ids, key) ==
    Cardinality({i \in 1..Len(ids) : NormalizeCourseId(ids[i]) = key})

\* C6: the external lookup partitions the missing ids by normalized key: a
\* key found in another catalog yields exactly one reference and no
\* still-missing entry, a key found nowhere yields exactly one still-missing
\* entry (the first spelling) and no reference; still-missing keeps the input
\* order; every reference comes from another catalog and its course has the
\* looked-up key.
C6_ExternalPartition ==
    Ok200 =>
        LET ext == response.external_prereqs
            still == response.missing_prereq_ids
            ext_ids == [i \in 1..Len(ext) |-> ext[i].course.id]
            keys == {NormalizeCourseId(m) : m \in Range(missing)}
        IN  /\ \A key \in keys :
                  IF Elsewhere(key)
                  THEN CountKey(ext_ids, key) = 1 /\ CountKey(still, key) = 0
                  ELSE CountKey(ext_ids, key) = 0 /\ CountKey(still, key) = 1
            /\ \A i \in 1..Len(still) :
                  still[i] = missing[SetMin({j \in 1..Len(missing) :
                      NormalizeCourseId(missing[j]) = NormalizeCourseId(still[i])})]
            /\ IsSubseq(still, missing)
            /\ \A i \in 1..Len(ext) :
                  /\ ext[i].slug # req.slug
                  /\ ext[i].slug \in Slugs
                  /\ ext[i].course \in Range(CatalogOf(ext[i].slug).courses)
                  /\ ext[i].department = CatalogOf(ext[i].slug).department
                  /\ NormalizeCourseId(ext[i].course.id) \in keys

C6_Witness ==
    /\ Ok200
    /\ response.external_prereqs # <<>>
    /\ response.missing_prereq_ids # <<>>
    /\ Len(missing) > Len(response.external_prereqs) + Len(response.missing_prereq_ids)

\* Position of the loaded catalog with a slug.
SlugPosition(slug) == CHOOSE i \in 1..Len(all_catalogs) : all_catalogs[i].slug = slug

\* C7: a reference comes from the first catalog in insertion order, other
\* than the current one, that has a course with the looked-up key, and is
\* the first such course of that catalog: no earlier catalog and no earlier
\* course matches.
C7_FirstMatchWins ==
    Ok200 =>
        \A r \in Range(response.external_prereqs) :
            LET key == NormalizeCourseId(r.course.id)
                courses == all_catalogs[SlugPosition(r.slug)].courses
            IN  /\ \A i \in 1..(SlugPosition(r.slug) - 1) :
                      \/ all_catalogs[i].slug = req.slug
                      \/ key \notin Range(Ids(all_catalogs[i].courses))
                /\ \E j \in 1..Len(courses) :
                      /\ courses[j] = r.course
                      /\ \A k \in 1..(j - 1) : Ids(courses)[k] # key

C7_Witness ==
    /\ Ok200
    /\ \E r \in Range(response.external_prereqs) :
          LET key == NormalizeCourseId(r.course.id)
          IN  /\ Cardinality({i \in 1..Len(all_catalogs) :
                      /\ all_catalogs[i].slug # req.slug
                      /\ key \in Range(Ids(all_catalogs[i].courses))}) >= 2
              /\ CountKey(Ids(CatalogOf(r.slug).courses), key) >= 2

\* C8: the missing list of the ancestor walk holds no normalized id twice:
\* two spellings of one unresolved id are one entry.
C8_MissingOncePerKey ==
    \A i, j \in 1..Len(missing) :
        i < j => NormalizeCourseId(missing[i]) # NormalizeCourseId(missing[j])

\* C9 as stated: the prerequisites and postrequisites lists are the catalog's
\* courses with their normalized id in the ancestor (descendant) set, in
\* catalog order, and no normalized id occurs twice in a list.
C9_NoKeyTwiceInLists ==
    Ok200 =>
        /\ ListsPositions(response.prerequisites, Current, Positions(Current, visited), Whole)
        /\ ListsPositions(response.postrequisites, Current, Positions(Current, desc_visited), Whole)
        /\ NoKeyTwice(response.prerequisites)
        /\ NoKeyTwice(response.postrequisites)

\* C9 amended: the prerequisites and postrequisites lists are subsequences of
\* the catalog's course sequence holding exactly the catalog entries whose
\* normalized id is in the ancestor (descendant) set, each entry once; every
\* catalog entry sharing a normalized id of the set is listed.
C9_ListsInCatalogOrder ==
    Ok200 =>
        /\ IsSubseq(response.prerequisites, Current.courses)
        /\ IsSubseq(response.postrequisites, Current.courses)
        /\ ListsPositions(response.prerequisites, Current, Positions(Current, visited), Whole)
        /\ ListsPositions(response.postrequisites, Current, Positions(Current, desc_visited), Whole)

C9_Witness ==
    /\ Ok200
    /\ ~NoKeyTwice(response.prerequisites)
    /\ Len(response.prerequisites) < Len(Current.courses)

\* The courses that list a member of S as a prerequisite.
Dependents(catalog, S) == UNION {Children(catalog, key) : key \in S}

\* S closed under n further steps along the children edges.
RECURSIVE Closure(_, _, _)
Closure(catalog, S, n) ==
    IF n = 0 THEN S ELSE Closure(catalog, S \cup Dependents(catalog, S), n - 1)

\* C10: the descendant set is exactly the set of normalized ids reachable
\* from the start by one or more "is a prerequisite of" edges.
C10_DescendantsAreReachable ==
    Ok200 =>
        desc_visited =
            Closure(Current, Dependents(Current, {Normalized}), Len(Current.courses))

C10_Witness ==
    /\ Ok200
    /\ Normalized \notin desc_visited
    /\ \E key \in desc_visited : key \notin Children(Current, Normalized)

\* The indexed courses that a member of S refers to as a prerequisite.
Required(catalog, S) ==
    UNION {{NormalizeCourseId(p) :
                p \in Range(PrereqIds(Index(catalog)[key].prereqGroups))}
            \cap DOMAIN Index(catalog) : key \in S \cap DOMAIN Index(catalog)}

\* S closed under n further steps along the prerequisite references.
RECURSIVE RequiredClosure(_, _, _)
RequiredClosure(catalog, S, n) ==
    IF n = 0 THEN S
    ELSE RequiredClosure(catalog, S \cup Required(catalog, S), n - 1)

\* The indexed courses reachable from key by one or more references.
AncestorsOf(catalog, key) ==
    RequiredClosure(catalog, Required(catalog, {key}), Len(catalog.courses))

\* The courses reachable from key by one or more children edges.
DescendantsOf(catalog, key) ==
    Closure(catalog, Dependents(catalog, {key}), Len(catalog.courses))

\* C11: the ancestor set is exactly the set of indexed keys reachable from
\* the start by one or more prerequisite references through indexed courses,
\* all groups and all alternatives followed; unresolved ids are neither
\* members nor entered; a start course without prerequisite groups has no
\* ancestors and no missing ids.
C11_AncestorsAreReachable ==
    Ok200 =>
        /\ visited = AncestorsOf(Current, Normalized)
        /\ \A m \in Range(missing) :
              /\ NormalizeCourseId(m) \notin DOMAIN Index(Current)
              /\ NormalizeCourseId(m) \notin visited
        /\ BagToSet(anc_entered) \subseteq DOMAIN Index(Current)
        /\ response.course.prereqGroups = <<>> => visited = {} /\ missing = <<>>

C11_Witness ==
    /\ Ok200
    /\ missing # <<>>
    /\ Len(response.course.prereqGroups) >= 2
    /\ \E key \in visited :
          key \notin Required(Current, {Normalized})

\* The ancestor walk as a function of the index: the references ids are
\* taken in order, an unresolved one is recorded, an unvisited resolved one
\* is added and its own references are walked before the rest.
RECURSIVE WalkFrom(_, _, _, _)
WalkFrom(index, ids, seen, unresolved) ==
    IF ids = <<>> THEN [visited |-> seen, missing |-> unresolved]
    ELSE LET key == NormalizeCourseId(Head(ids))
         IN  IF key \notin DOMAIN index
             THEN WalkFrom(index, Tail(ids), seen,
                           IF Head(ids) \in Range(unresolved) THEN unresolved
                           ELSE Append(unresolved, Head(ids)))
             ELSE IF key \in seen
             THEN WalkFrom(index, Tail(ids), seen, unresolved)
             ELSE LET below == WalkFrom(index, PrereqIds(index[key].prereqGroups),
                                        seen \cup {key}, unresolved)
                  IN  WalkFrom(index, Tail(ids), below.visited, below.missing)

\* The CourseDetail as a function of the catalog set, the slug and the
\* requested id, with no set iterated.
ExpectedDetail(catalogs, slug, course_id) ==
    LET catalog == catalogs[CHOOSE i \in 1..Len(catalogs) : catalogs[i].slug = slug]
        key == NormalizeCourseId(course_id)
        course == Index(catalog)[key]
        walk == WalkFrom(Index(catalog), PrereqIds(course.prereqGroups), {}, <<>>)
        descendants == DescendantsOf(catalog, key)
        related_ids == {key} \cup walk.visited \cup descendants
        resolved == ResolveExternalPrereqs(walk.missing, slug, catalogs)
    IN  [status |-> 200,
         department |-> catalog.department,
         slug |-> catalog.slug,
         course |-> course,
         prerequisites |-> CoursesInCatalogOrder(catalog, walk.visited),
         postrequisites |-> CoursesInCatalogOrder(catalog, descendants),
         missing_prereq_ids |-> resolved.still_missing,
         external_prereqs |-> resolved.external,
         related_courses |->
             FilterAll(CoursesInCatalogOrder(catalog, related_ids), related_ids)]

\* C12: every field of a built detail is a function of the catalog set, the
\* slug and the course id alone: whatever order the children sets and the
\* stack were iterated in, the result is the same.
C12_DetailIsFunctionOfInput ==
    Ok200 => response = ExpectedDetail(all_catalogs, req.slug, req.course_id)

C12_Witness ==
    /\ Ok200
    /\ Cardinality(Children(Current, Normalized)) >= 2
    /\ Cardinality(desc_visited) >= 3
    /\ response.external_prereqs # <<>>

\* Two spellings of one course id: equal up to whitespace and letter case.
SameCourseId(a, b) == NormalizeCourseId(a) = NormalizeCourseId(b)

\* C13: a request ends in catalog-not-found exactly when the slug is not
\* loaded, whatever the course id; for a loaded slug it ends in
\* course-not-found exactly when no course of the catalog has the requested
\* id up to whitespace and case; otherwise the detail is the one the exact
\* spelling of the course id yields.
C13_NotFoundExactly ==
    pc = "done" =>
        /\ (req.slug \notin Slugs) <=>
              (response.status = 404 /\ response.detail = "catalog")
        /\ req.slug \in Slugs =>
              ((response.status = 404 /\ response.detail = "course") <=>
                  ~ \E c \in Range(Current.courses) : SameCourseId(c.id, req.course_id))
        /\ response.status = 200 =>
              \A c \in Range(Current.courses) :
                  SameCourseId(c.id, req.course_id) =>
                      response = ExpectedDetail(all_catalogs, req.slug, c.id)
        /\ response.status = 404 => anc_entered = EmptyBag /\ desc_expanded = EmptyBag

C13_Witness ==
    /\ Ok200
    /\ \A c \in Range(Current.courses) : c.id # req.course_id
    /\ visited # {}

\* C16: in a catalog with pairwise distinct normalized ids, ancestor and
\* descendant are converse relations: a course is an ancestor of the target
\* exactly when the target is reachable from it along the children edges,
\* and a descendant exactly when the target is reachable from it along the
\* prerequisite references.
C16_AncestorDescendantConverse ==
    (Ok200 /\ NoKeyTwice(Current.courses)) =>
        \A key \in DOMAIN Index(Current) :
            /\ key \in visited <=> Normalized \in DescendantsOf(Current, key)
            /\ key \in desc_visited <=> Normalized \in AncestorsOf(Current, key)

C16_Witness ==
    /\ Ok200
    /\ NoKeyTwice(Current.courses)
    /\ Len(Current.courses) >= 3
    /\ visited # {}
    /\ desc_visited # {}
    /\ visited # desc_visited

\* Catalog positions whose id or name contains text, letter case ignored.
Containing(courses, text) ==
    {j \in 1..Len(courses) :
        \/ Contains(LowerAll(text), LowerAll(courses[j].id))
        \/ Contains(LowerAll(text), LowerAll(courses[j].name))}

\* found is the first entries, up to the limit, of the courses at positions P.
IsFirstOf(found, courses, P) ==
    /\ Len(found) = (IF Cardinality(P) < SearchLimit THEN Cardinality(P) ELSE SearchLimit)
    /\ \A n \in 1..Len(found) :
          found[n] = IdAndName(courses[NthPosition(P, n)])

\* C14 as stated: a search returns at most 25 entries, exactly the first
\* courses in catalog order whose id or name contains the query as given,
\* letter case ignored.
C14_FirstMatchesOfQuery ==
    search_pc = "done" =>
        /\ Len(matches) <= SearchLimit
        /\ IsFirstOf(matches, CatalogOf(search_req.slug).courses,
                     Containing(CatalogOf(search_req.slug).courses, search_req.q))

\* C14 amended: a search returns at most 25 entries, exactly the first
\* courses in catalog order whose id or name contains the query with its
\* leading and trailing whitespace removed, letter case ignored; an empty or
\* all-whitespace query matches every course.
C14_FirstMatchesOfStrippedQuery ==
    search_pc = "done" =>
        /\ Len(matches) <= SearchLimit
        /\ IsFirstOf(matches, CatalogOf(search_req.slug).courses,
                     Containing(CatalogOf(search_req.slug).courses, Strip(search_req.q)))
        /\ Strip(search_req.q) = <<>> =>
              Len(matches) = (IF Len(CatalogOf(search_req.slug).courses) < SearchLimit
                              THEN Len(CatalogOf(search_req.slug).courses)
                              ELSE SearchLimit)

C14_Witness ==
    /\ search_pc = "done"
    /\ Len(matches) = SearchLimit
    /\ Strip(search_req.q) # search_req.q
    /\ Strip(search_req.q) # <<>>
    /\ LET courses == CatalogOf(search_req.slug).courses
           P == Containing(courses, Strip(search_req.q))
       IN  /\ Cardinality(P) > SearchLimit
           /\ \E j \in 1..cursor : j \notin P

\* The stored record of the course in the structured file.
Persisted(stored, cid, groups) ==
    \E i \in 1..Len(stored) : stored[i] = [id |-> cid, prereqGroups |-> groups]

\* C15: after every write of the structured file, every course still in the
\* raw input whose prereqGroups the file already held (from an earlier run or
\* an earlier batch of this run) is still in the file with the same
\* prereqGroups.
C15_WritesKeepPersisted ==
    [][\A i \in 1..Len(file) :
          file[i].id \in Range(raw) =>
              Persisted(file', file[i].id, file[i].prereqGroups)]_vars

\* A step of parse_prereqs_batch or process_batch_and_flush, not a stop.
RunGoesOn == run_pc' # "idle"

\* C17: parse_prereqs_batch makes at most three attempts for a batch and
\* stops at the first success; when all three fail the flush persists every
\* course of the batch with empty prereqGroups; a run takes its existing
\* records from the structured file, reuses the stored value of every course
\* found there, the empty one included, and never queues such a course.
C17_FailedBatchPersistedAndReused ==
    /\ [](/\ attempt <= MaxAttempts
          /\ run_pc = "parse" => results = "none" /\ attempt < MaxAttempts
          /\ results \in {"ok", "partial"} => attempt < MaxAttempts
          /\ results = "failed" => attempt = MaxAttempts
          /\ \A cid \in Range(batch) : cid \notin DOMAIN existing
          /\ \A cid \in Range(course_order) \cap DOMAIN existing :
                /\ cid \in DOMAIN course_records
                /\ course_records[cid] = existing[cid])
    /\ [][/\ (run_pc = "parse" /\ RunGoesOn) =>
                \/ attempt' = attempt + 1 /\ results' \in {"none", "failed"}
                \/ /\ attempt' = attempt
                   /\ results' \in {"ok", "partial"}
                   /\ run_pc' = "merge"
          /\ (run_pc = "merge" /\ RunGoesOn /\ results = "failed") =>
                \A cid \in Range(batch) : Persisted(file', cid, <<>>)
          /\ (run_pc = "idle" /\ RunGoesOn) =>
                /\ DOMAIN existing' = {file[i].id : i \in 1..Len(file)}
                /\ \A i \in 1..Len(file) :
                      existing'[file[i].id] = file[i].prereqGroups]_vars

\* A later run has reused the empty values stored for two courses of one
\* batch that have requirements text: the three attempts of that batch failed.
C17_Witness ==
    /\ run_pc = "loop"
    /\ \E c1, c2 \in Range(course_order) :
          /\ c1 # c2
          /\ \A cid \in {c1, c2} :
                /\ HasRequirements(cid)
                /\ cid \in DOMAIN existing
                /\ existing[cid] = <<>>
                /\ course_records[cid] = <<>>
                /\ cid \notin Range(batch)
                /\ Persisted(file, cid, <<>>)

====
